---- MODULE Spec2Model ----
(***************************************************************************)
(* Model of freitagsfoo-bot (src/main.py): the snapshot differ             *)
(* compare_data / find_matching_talk, the publisher publish_changes and    *)
(* the update cycle got_new_data.                                          *)
(*                                                                         *)
(* Python values are modelled as follows.  A dict is a record, a list is a *)
(* sequence, an Optional value is a sequence of length 0 (None) or 1, and  *)
(* a NamedTuple change event is a record that carries its class name in    *)
(* the field "type" next to the NamedTuple's own fields.                   *)
(***************************************************************************)
EXTENDS Naturals, Sequences, FiniteSets

VARIABLES
    current_data,   \* the global current_data
    new_data,       \* got_new_data's new_data
    changes,        \* got_new_data's changes
    sent,           \* the room_send calls of this cycle that returned
    pc,             \* where the process stands
    store,          \* the file data/current.json
    new_file,       \* the file NEW_DATA_FILE
    pending,        \* inotify events queued for the watch
    backoff,        \* fetch_new_data's backoff
    aborted         \* history: the cycle a raising room_send ended, if none
                    \* was completed since

vars == <<current_data, new_data, changes, sent, pc,
          store, new_file, pending, backoff, aborted>>

(***************************************************************************)
(* Bounded input domains.                                                  *)
(***************************************************************************)
MaxTalks == 2

Dates == {"d1", "d2"}

\* The placeholder host list compared against on the date-rollover path.
Placeholder == <<"fixme">>

HostLists == {Placeholder, <<"A", "B">>, <<"B", "A">>}

\* Two titles; T1 comes with two descriptions, T2 with two persons lists.
TalkSet ==
    { [title |-> "T1", description |-> "x", persons |-> <<"P">>],
      [title |-> "T1", description |-> "y", persons |-> <<"P">>],
      [title |-> "T2", description |-> "x", persons |-> <<"P">>],
      [title |-> "T2", description |-> "x", persons |-> <<"P", "Q">>] }

TalkLists == UNION { [1..n -> TalkSet] : n \in 0..MaxTalks }

Snapshots == [date : Dates, hosts : HostLists, talks : TalkLists]

NumRooms == 2

room_ids == [i \in 1..NumRooms |-> i]

\* Python's None
NoData == [none |-> TRUE]

\* a file that is missing, cut short or not JSON
Unreadable == [unreadable |-> TRUE]

\* fetch_new_data's first backoff
InitialBackoff == 5

(***************************************************************************)
(* Change events.                                                          *)
(***************************************************************************)
DateChanged(new_date) == [type |-> "DateChanged", new_date |-> new_date]

HostsChanged(old_hosts, new_hosts) ==
    [type |-> "HostsChanged", old_hosts |-> old_hosts, new_hosts |-> new_hosts]

TalkAdded(new_talk) == [type |-> "TalkAdded", new_talk |-> new_talk]

TalkRemoved(old_talk) == [type |-> "TalkRemoved", old_talk |-> old_talk]

TalkChanged(old_talk, new_talk) ==
    [type |-> "TalkChanged", old_talk |-> old_talk, new_talk |-> new_talk]

(***************************************************************************)
(* find_matching_talk: the first possibility with the original's title,    *)
(* or None.                                                                *)
(***************************************************************************)
\* faulty variant: talks match only when they are equal in every field
find_matching_talk_exact(original_talk, list_of_talks) ==
    LET idx == {i \in 1..Len(list_of_talks) : list_of_talks[i] = original_talk}
    IN  IF idx = {} THEN <<>> ELSE <<original_talk>>

RECURSIVE find_matching_talk(_, _)
find_matching_talk(original_talk, list_of_talks) ==
    IF list_of_talks = <<>>
    THEN <<>>
    ELSE IF original_talk.title = Head(list_of_talks).title
         THEN <<Head(list_of_talks)>>
         ELSE find_matching_talk(original_talk, Tail(list_of_talks))

(***************************************************************************)
(* compare_data.                                                           *)
(***************************************************************************)
\* faulty variant: the placeholder is taken to be the empty host list
NonTrivial_emptyhosts(new) == new.talks # <<>> \/ new.hosts # <<>>

\* line 77: the new snapshot is worth announcing
NonTrivial(new) == new.talks # <<>> \/ new.hosts # Placeholder

\* faulty variant: the rollover reports the old hosts as replaced
RolloverChanges_oldhosts(old, new) ==
    IF new.talks # <<>> \/ new.hosts # <<"fixme">>
    THEN <<DateChanged(new.date), HostsChanged(old.hosts, new.hosts)>>
         \o [i \in 1..Len(new.talks) |-> TalkAdded(new.talks[i])]
    ELSE <<>>

\* lines 77-81: the date differs
RolloverChanges(old, new) ==
    IF NonTrivial(new)
    THEN <<DateChanged(new.date), HostsChanged(<<>>, new.hosts)>>
         \o [i \in 1..Len(new.talks) |-> TalkAdded(new.talks[i])]
    ELSE <<>>

\* faulty variant: a changed talk is reported with the old talk in both slots
RemovedOrChanged_oldtwice(old_talks, new_talks) ==
    LET titles == {new_talks[i].title : i \in 1..Len(new_talks)}
        First(t) == new_talks[CHOOSE i \in 1..Len(new_talks) :
                        /\ new_talks[i].title = t.title
                        /\ \A j \in 1..(i - 1) : new_talks[j].title # t.title]
        kept == SelectSeq(old_talks,
                    LAMBDA t : t.title \notin titles \/ First(t) # t)
    IN  [i \in 1..Len(kept) |->
            IF kept[i].title \notin titles
            THEN TalkRemoved(kept[i])
            ELSE TalkChanged(kept[i], kept[i])]

\* lines 84-90: the loop over old["talks"]
RECURSIVE RemovedOrChanged(_, _)
RemovedOrChanged(old_talks, new_talks) ==
    IF old_talks = <<>>
    THEN <<>>
    ELSE LET talk == Head(old_talks)
             matching_talk == find_matching_talk(talk, new_talks)
         IN  (IF matching_talk = <<>>
              THEN <<TalkRemoved(talk)>>
              ELSE IF talk # matching_talk[1]
                   THEN <<TalkChanged(talk, matching_talk[1])>>
                   ELSE <<>>)
             \o RemovedOrChanged(Tail(old_talks), new_talks)

\* faulty variant: new talks are matched against the new list itself
Added_selfmatch(new_talks, old_talks) ==
    LET unmatched == SelectSeq(new_talks,
                        LAMBDA t : \A i \in 1..Len(new_talks) :
                                      new_talks[i].title # t.title)
    IN  [i \in 1..Len(unmatched) |-> TalkAdded(unmatched[i])]

\* lines 91-94: the loop over new["talks"]
RECURSIVE Added(_, _)
Added(new_talks, old_talks) ==
    IF new_talks = <<>>
    THEN <<>>
    ELSE LET talk == Head(new_talks)
             matching_talk == find_matching_talk(talk, old_talks)
         IN  (IF matching_talk = <<>> THEN <<TalkAdded(talk)>> ELSE <<>>)
             \o Added(Tail(new_talks), old_talks)

\* faulty variant: the hosts are compared as sets
SameDateChanges_hostsasset(old, new) ==
    (IF {old.hosts[i] : i \in 1..Len(old.hosts)}
          # {new.hosts[i] : i \in 1..Len(new.hosts)}
     THEN <<HostsChanged(old.hosts, new.hosts)>>
     ELSE <<>>)
    \o RemovedOrChanged(old.talks, new.talks)
    \o Added(new.talks, old.talks)

\* faulty variant: the additions are computed before the removals and changes
SameDateChanges_addedfirst(old, new) ==
    (IF old.hosts # new.hosts
     THEN <<HostsChanged(old.hosts, new.hosts)>>
     ELSE <<>>)
    \o Added(new.talks, old.talks)
    \o RemovedOrChanged(old.talks, new.talks)

\* lines 82-96: the date is the same
SameDateChanges(old, new) ==
    (IF old.hosts # new.hosts
     THEN <<HostsChanged(old.hosts, new.hosts)>>
     ELSE <<>>)
    \o RemovedOrChanged(old.talks, new.talks)
    \o Added(new.talks, old.talks)

compare_data(old, new) ==
    IF old.date # new.date
    THEN RolloverChanges(old, new)
    ELSE SameDateChanges(old, new)

(***************************************************************************)
(* publish_changes.                                                        *)
(***************************************************************************)
OfType(cs, type) == SelectSeq(cs, LAMBDA c : c.type = type)

\* faulty variant: the date is always the current snapshot's
output_md_fallback(cs, cur) ==
    [ date          |-> cur.date,
      date_changed  |-> OfType(cs, "DateChanged"),
      talks_added   |-> OfType(cs, "TalkAdded"),
      talks_changed |-> OfType(cs, "TalkChanged"),
      talks_removed |-> OfType(cs, "TalkRemoved"),
      hosts_changed |-> OfType(cs, "HostsChanged") ]

\* lines 111-124: what the template is rendered from
output_md(cs, cur) ==
    LET date_changed == OfType(cs, "DateChanged")
    IN  [ date          |-> IF date_changed # <<>>
                            THEN date_changed[1].new_date
                            ELSE cur.date,
          date_changed  |-> date_changed,
          talks_added   |-> OfType(cs, "TalkAdded"),
          talks_changed |-> OfType(cs, "TalkChanged"),
          talks_removed |-> OfType(cs, "TalkRemoved"),
          hosts_changed |-> OfType(cs, "HostsChanged") ]

\* faulty variant: no early return on an empty change list
Destinations_always(cs) == room_ids

\* lines 109-110 and 126: the rooms a message goes to
Destinations(cs) == IF cs = <<>> THEN <<>> ELSE room_ids

\* lines 127-136: one room_send
room_send(room_id, body) == [room_id |-> room_id, body |-> body]

\* the whole of publish_changes when every send returns
publish_changes(cs, cur) ==
    [i \in 1..Len(Destinations(cs)) |->
        room_send(Destinations(cs)[i], output_md(cs, cur))]

(***************************************************************************)
(* DiffSpec: one diff and its publication, from every pair of snapshots.   *)
(***************************************************************************)
DiffInit ==
    /\ current_data \in Snapshots
    /\ new_data \in Snapshots
    /\ changes = <<>>
    /\ sent = <<>>
    /\ pc = "compare"
    /\ store = Unreadable
    /\ new_file = Unreadable
    /\ pending = 0
    /\ backoff = InitialBackoff
    /\ aborted = NoData

Differ ==
    /\ pc = "compare"
    /\ changes' = compare_data(current_data, new_data)
    /\ pc' = "publish"
    /\ UNCHANGED <<current_data, new_data, sent>>
    /\ UNCHANGED <<store, new_file, pending, backoff>>
    /\ UNCHANGED aborted

Renderer ==
    /\ pc = "publish"
    /\ sent' = sent \o publish_changes(changes, current_data)
    /\ pc' = "published"
    /\ UNCHANGED <<current_data, new_data, changes>>
    /\ UNCHANGED <<store, new_file, pending, backoff>>
    /\ UNCHANGED aborted

DiffNext == Differ \/ Renderer

DiffSpec == DiffInit /\ [][DiffNext]_vars

(***************************************************************************)
(* Spec: the process main() with its files, its restarts and its update    *)
(* cycles.                                                                 *)
(***************************************************************************)
MaxPending == 2

MaxRetries == 2

\* What the writer of NEW_DATA_FILE may leave there: four well-formed
\* documents and one that parses but lacks "talks".
HostDocs ==
    { [date |-> "d1", hosts |-> Placeholder, talks |-> <<>>],
      [date |-> "d1", hosts |-> <<"A", "B">>,
       talks |-> <<[title |-> "T1", description |-> "x", persons |-> <<"P">>]>>],
      [date |-> "d2", hosts |-> Placeholder, talks |-> <<>>],
      [date |-> "d2", hosts |-> <<"A", "B">>,
       talks |-> <<[title |-> "T1", description |-> "y", persons |-> <<"P">>]>>],
      [date |-> "d2", hosts |-> Placeholder] }

\* json.dumps and json.loads of a document; text is kept apart from values
json_dumps(data) == [text |-> data]

Parses(file) == "text" \in DOMAIN file

json_loads(file) == file.text

\* faulty variant: the text never reaches the file
save_current_data_unwritten(data, current_data_file) == current_data_file

\* line 59
save_current_data(data, current_data_file) == json_dumps(data)

\* the KeyError of compare_data on a document without "talks"
compare_raises(old, new) ==
    IF old.date # new.date
    THEN "talks" \notin DOMAIN new
    ELSE "talks" \notin DOMAIN old \/ "talks" \notin DOMAIN new

RECURSIVE Pow2(_)
Pow2(n) == IF n = 0 THEN 1 ELSE 2 * Pow2(n - 1)

\* the inotify watch of line 46 exists
Watching == pc \in {"wait", "fetch", "compare", "publish", "save", "saving"}

Queue(n) == IF n < MaxPending THEN n + 1 ELSE n

Init ==
    /\ current_data = NoData
    /\ new_data = NoData
    /\ changes = <<>>
    /\ sent = <<>>
    /\ pc = "down"
    /\ store = Unreadable
    /\ new_file = Unreadable
    /\ pending = 0
    /\ backoff = InitialBackoff
    /\ aborted = NoData

\* the schedule's writer closes NEW_DATA_FILE after writing it
WriteNewData ==
    /\ \E d \in HostDocs : new_file' = json_dumps(d)
    /\ pending' = IF Watching THEN Queue(pending) ELSE pending
    /\ UNCHANGED <<current_data, new_data, changes, sent, pc, store, backoff>>
    /\ UNCHANGED aborted

\* ... or leaves it cut short
WriteGarbage ==
    /\ new_file # Unreadable
    /\ new_file' = Unreadable
    /\ pending' = IF Watching THEN Queue(pending) ELSE pending
    /\ UNCHANGED <<current_data, new_data, changes, sent, pc, store, backoff>>
    /\ UNCHANGED aborted

\* lines 147-150: main loads data/current.json
LoadCurrent ==
    /\ pc = "down"
    /\ Parses(store)
    /\ current_data' = json_loads(store)
    /\ new_data' = NoData
    /\ changes' = <<>>
    /\ sent' = <<>>
    /\ pending' = 0
    /\ backoff' = InitialBackoff
    /\ pc' = "setup"
    /\ UNCHANGED <<store, new_file>>
    /\ UNCHANGED aborted

\* lines 151-153: the load failed, main fetches instead
LoadFails ==
    /\ pc = "down"
    /\ ~Parses(store)
    /\ current_data' = NoData
    /\ new_data' = NoData
    /\ changes' = <<>>
    /\ sent' = <<>>
    /\ pending' = 0
    /\ backoff' = InitialBackoff
    /\ pc' = "bootfetch"
    /\ UNCHANGED <<store, new_file>>
    /\ UNCHANGED aborted

\* faulty variant: the bootstrap does not save what it fetched
BootFetch_nosave ==
    /\ pc = "bootfetch"
    /\ Parses(new_file)
    /\ current_data' = json_loads(new_file)
    /\ pc' = "setup"
    /\ UNCHANGED <<new_data, changes, sent, store, new_file, pending, backoff>>
    /\ UNCHANGED aborted

\* lines 34-36, called from line 153
BootFetch ==
    /\ pc = "bootfetch"
    /\ Parses(new_file)
    /\ current_data' = json_loads(new_file)
    /\ pc' = "bootsave"
    /\ UNCHANGED <<new_data, changes, sent, store, new_file, pending, backoff>>
    /\ UNCHANGED aborted

\* faulty variant: the backoff grows by its first value instead of doubling
Retry_linear ==
    /\ pc \in {"bootfetch", "fetch"}
    /\ ~Parses(new_file)
    /\ backoff < InitialBackoff * Pow2(MaxRetries)
    /\ backoff' = backoff + InitialBackoff
    /\ UNCHANGED <<current_data, new_data, changes, sent, pc, store,
                   new_file, pending>>
    /\ UNCHANGED aborted

\* lines 37-41: sleep, then try again with twice the backoff
Retry ==
    /\ pc \in {"bootfetch", "fetch"}
    /\ ~Parses(new_file)
    /\ backoff < InitialBackoff * Pow2(MaxRetries)
    /\ backoff' = backoff * 2
    /\ UNCHANGED <<current_data, new_data, changes, sent, pc, store,
                   new_file, pending>>
    /\ UNCHANGED aborted

\* line 59: write_text opens the file, which empties it ...
SaveBegins ==
    /\ pc \in {"bootsave", "save"}
    /\ store' = Unreadable
    /\ pc' = IF pc = "bootsave" THEN "bootsaving" ELSE "saving"
    /\ UNCHANGED <<current_data, new_data, changes, sent, new_file,
                   pending, backoff>>
    /\ UNCHANGED aborted

\* ... and writes the text; lines 154 and 71
SaveEnds ==
    /\ pc \in {"bootsaving", "saving"}
    /\ store' = save_current_data(current_data, store)
    /\ pc' = IF pc = "bootsaving" THEN "setup" ELSE "wait"
    /\ UNCHANGED <<current_data, new_data, changes, sent, new_file,
                   pending, backoff>>
    /\ UNCHANGED aborted

\* lines 156-169 and 45-46: template, login, the inotify watch
Setup ==
    /\ pc = "setup"
    /\ pending' = 0
    /\ pc' = "wait"
    /\ UNCHANGED <<current_data, new_data, changes, sent, store, new_file,
                   backoff>>
    /\ UNCHANGED aborted

\* faulty variant: the loop starts got_new_data without awaiting the last one
Trigger_concurrent ==
    /\ pc \in {"wait", "fetch", "compare", "publish", "save", "saving"}
    /\ pending > 0
    /\ pending' = pending - 1
    /\ new_data' = NoData
    /\ changes' = <<>>
    /\ sent' = <<>>
    /\ backoff' = InitialBackoff
    /\ pc' = "fetch"
    /\ UNCHANGED <<current_data, store, new_file>>
    /\ UNCHANGED aborted

\* lines 47-48 and 64: the next inotify event starts a cycle
Trigger ==
    /\ pc = "wait"
    /\ pending > 0
    /\ pending' = pending - 1
    /\ new_data' = NoData
    /\ changes' = <<>>
    /\ sent' = <<>>
    /\ backoff' = InitialBackoff
    /\ pc' = "fetch"
    /\ UNCHANGED <<current_data, store, new_file>>
    /\ UNCHANGED aborted

\* lines 34-36 and 64; closing the file read is itself a CLOSE event
Fetch ==
    /\ pc = "fetch"
    /\ Parses(new_file)
    /\ new_data' = json_loads(new_file)
    /\ pending' = Queue(pending)
    /\ pc' = "compare"
    /\ UNCHANGED <<current_data, changes, sent, store, new_file, backoff>>
    /\ UNCHANGED aborted

\* line 66
Compare ==
    /\ pc = "compare"
    /\ ~compare_raises(current_data, new_data)
    /\ changes' = compare_data(current_data, new_data)
    /\ pc' = "publish"
    /\ UNCHANGED <<current_data, new_data, sent, store, new_file, pending,
                   backoff>>
    /\ UNCHANGED aborted

\* line 66 raises KeyError, which nothing catches: the process ends
CompareRaises ==
    /\ pc = "compare"
    /\ compare_raises(current_data, new_data)
    /\ pc' = "down"
    /\ UNCHANGED <<current_data, new_data, changes, sent, store, new_file,
                   pending, backoff>>
    /\ UNCHANGED aborted

\* faulty variant: every send goes to the first room
Send_firstroom ==
    /\ pc = "publish"
    /\ Len(sent) < Len(Destinations(changes))
    /\ sent' = Append(sent, room_send(Destinations(changes)[1],
                                      output_md(changes, current_data)))
    /\ UNCHANGED <<current_data, new_data, changes, pc, store, new_file,
                   pending, backoff>>
    /\ UNCHANGED aborted

\* lines 126-136: the next room_send returns
Send ==
    /\ pc = "publish"
    /\ Len(sent) < Len(Destinations(changes))
    /\ sent' = Append(sent, room_send(Destinations(changes)[Len(sent) + 1],
                                      output_md(changes, current_data)))
    /\ UNCHANGED <<current_data, new_data, changes, pc, store, new_file,
                   pending, backoff>>
    /\ UNCHANGED aborted

\* faulty variant: the exception of room_send is swallowed and the cycle
\* goes on to swap and save
SendRaises_swallowed ==
    /\ pc = "publish"
    /\ Len(sent) < Len(Destinations(changes))
    /\ current_data' = new_data
    /\ pc' = "save"
    /\ aborted' = [old |-> current_data, new |-> new_data, k |-> Len(sent) + 1]
    /\ UNCHANGED <<new_data, changes, sent, store, new_file, pending, backoff>>

\* lines 126-136: the next room_send raises, which nothing catches
SendRaises ==
    /\ pc = "publish"
    /\ Len(sent) < Len(Destinations(changes))
    /\ pc' = "down"
    /\ UNCHANGED <<current_data, new_data, changes, sent, store, new_file,
                   pending, backoff>>
    /\ aborted' = [old |-> current_data, new |-> new_data, k |-> Len(sent) + 1]

\* faulty variant: the swap does not wait for the sends
Swap_early ==
    /\ pc = "publish"
    /\ current_data' = new_data
    /\ pc' = "save"
    /\ UNCHANGED <<new_data, changes, sent, store, new_file, pending, backoff>>
    /\ aborted' = NoData

\* faulty variant: a cycle without changes keeps the old snapshot
Swap_onlychanged ==
    /\ pc = "publish"
    /\ Len(sent) = Len(Destinations(changes))
    /\ current_data' = IF changes = <<>> THEN current_data ELSE new_data
    /\ pc' = "save"
    /\ aborted' = NoData
    /\ UNCHANGED <<new_data, changes, sent, store, new_file, pending, backoff>>

\* lines 109-110 or the end of the loop of line 126, then line 70
Swap ==
    /\ pc = "publish"
    /\ Len(sent) = Len(Destinations(changes))
    /\ current_data' = new_data
    /\ pc' = "save"
    /\ UNCHANGED <<new_data, changes, sent, store, new_file, pending, backoff>>
    /\ aborted' = NoData

\* the process is killed, or an await or a write raises
Crash ==
    /\ pc # "down"
    /\ pc' = "down"
    /\ UNCHANGED <<current_data, new_data, changes, sent, store, new_file,
                   pending, backoff>>
    /\ UNCHANGED aborted

Next ==
    \/ WriteNewData \/ WriteGarbage
    \/ LoadCurrent \/ LoadFails \/ BootFetch \/ Retry
    \/ SaveBegins \/ SaveEnds \/ Setup
    \/ Trigger \/ Fetch \/ Compare \/ CompareRaises
    \/ Send \/ SendRaises \/ Swap
    \/ Crash

Spec == Init /\ [][Next]_vars

\* The event loop resumes a coroutine whose await is over: a fetch that can
\* read its file does so.
LiveSpec == Spec /\ WF_vars(Fetch) /\ WF_vars(BootFetch)

(***************************************************************************)
(* Vocabulary of the properties.                                           *)
(***************************************************************************)
Diffed == pc # "compare"

SameDate == current_data.date = new_data.date

MapSeq(s, Op(_)) == [i \in 1..Len(s) |-> Op(s[i])]

Range(s) == {s[i] : i \in 1..Len(s)}

TitlesOf(talks) == {talks[i].title : i \in 1..Len(talks)}

UniqueTitles(talks) ==
    \A i, j \in 1..Len(talks) : talks[i].title = talks[j].title => i = j

\* the first talk of a list that carries the title
FirstWithTitle(talks, title) ==
    LET idx == {i \in 1..Len(talks) : talks[i].title = title}
    IN  talks[CHOOSE i \in idx : \A j \in idx : i <= j]

AddedTalks(cs) == {c.new_talk : c \in {e \in Range(cs) : e.type = "TalkAdded"}}

RemovedTalks(cs) == {c.old_talk : c \in {e \in Range(cs) : e.type = "TalkRemoved"}}

ChangedPairs(cs) ==
    {<<c.old_talk, c.new_talk>> : c \in {e \in Range(cs) : e.type = "TalkChanged"}}

\* the titles the events of the given types speak of
EventTitles(cs, types) ==
    {(IF c.type = "TalkAdded" THEN c.new_talk.title ELSE c.old_talk.title) :
        c \in {e \in Range(cs) : e.type \in types}}

CountFor(cs, type, title) ==
    Cardinality({i \in 1..Len(cs) :
        /\ cs[i].type = type
        /\ (IF type = "TalkAdded" THEN cs[i].new_talk.title
                                  ELSE cs[i].old_talk.title) = title})

(***************************************************************************)
(* C1: for every snapshot S, duplicate titles included, compare_data(S, S) *)
(* is the empty sequence.  Stated as claimed; the differ breaks it.        *)
(***************************************************************************)
C1_SelfDiffEmpty ==
    (Diffed /\ current_data = new_data) => changes = <<>>

(***************************************************************************)
(* C2: on the same date the TalkRemoved events are exactly the old talks   *)
(* whose title no new talk has, the TalkAdded events exactly the new talks *)
(* whose title no old talk has, each in list order and nothing else.       *)
(***************************************************************************)
C2_AddedRemovedByTitle ==
    (Diffed /\ SameDate) =>
        /\ OfType(changes, "TalkRemoved") =
             MapSeq(SelectSeq(current_data.talks,
                        LAMBDA t : t.title \notin TitlesOf(new_data.talks)),
                    TalkRemoved)
        /\ OfType(changes, "TalkAdded") =
             MapSeq(SelectSeq(new_data.talks,
                        LAMBDA t : t.title \notin TitlesOf(current_data.talks)),
                    TalkAdded)

\* C2: a state in which the case of the claim has happened
C2_Witness ==
    /\ Diffed /\ SameDate
    /\ Len(current_data.talks) = 1 /\ Len(new_data.talks) = 1
    /\ current_data.talks[1].title # new_data.talks[1].title
    /\ Len(OfType(changes, "TalkRemoved")) = 1
    /\ Len(OfType(changes, "TalkAdded")) = 1

NoTitleAddedAndGone(cs) ==
    EventTitles(cs, {"TalkAdded"})
        \cap EventTitles(cs, {"TalkRemoved", "TalkChanged"}) = {}

ExactlyOneChanged ==
    \A i \in 1..Len(current_data.talks), j \in 1..Len(new_data.talks) :
        LET o == current_data.talks[i]
            n == new_data.talks[j]
        IN  (o.title = n.title /\ o # n) =>
                /\ CountFor(changes, "TalkChanged", o.title) = 1
                /\ TalkChanged(o, n) \in Range(changes)
                /\ CountFor(changes, "TalkAdded", o.title) = 0
                /\ CountFor(changes, "TalkRemoved", o.title) = 0

(***************************************************************************)
(* C3 as claimed: on the same date an old talk that shares its title with  *)
(* a differing new talk gives exactly one TalkChanged for that title and   *)
(* no TalkAdded or TalkRemoved for it; no title is both added and          *)
(* removed-or-changed.                                                     *)
(***************************************************************************)
C3_ExactlyOneChanged ==
    Diffed => /\ SameDate => ExactlyOneChanged
              /\ NoTitleAddedAndGone(changes)

(***************************************************************************)
(* C3 amended: on the same date the TalkChanged events are, in old-list    *)
(* order, TalkChanged(t, m) for each old talk t whose first same-titled    *)
(* new talk m differs from t; with titles unique in both snapshots that is *)
(* exactly one TalkChanged per changed title and no TalkAdded/TalkRemoved  *)
(* for it; no title is both added and removed-or-changed.                  *)
(***************************************************************************)
C3_ChangedByFirstMatch ==
    Diffed =>
        /\ SameDate =>
             /\ OfType(changes, "TalkChanged") =
                  MapSeq(SelectSeq(current_data.talks,
                             LAMBDA t :
                                /\ t.title \in TitlesOf(new_data.talks)
                                /\ FirstWithTitle(new_data.talks, t.title) # t),
                         LAMBDA t :
                            TalkChanged(t, FirstWithTitle(new_data.talks, t.title)))
             /\ (UniqueTitles(current_data.talks) /\ UniqueTitles(new_data.talks))
                    => ExactlyOneChanged
        /\ NoTitleAddedAndGone(changes)

\* C3: a state in which the case of the claim has happened
C3_Witness ==
    /\ Diffed /\ SameDate
    /\ UniqueTitles(current_data.talks) /\ UniqueTitles(new_data.talks)
    /\ \E i \in 1..Len(current_data.talks), j \in 1..Len(new_data.talks) :
          /\ current_data.talks[i].title = new_data.talks[j].title
          /\ current_data.talks[i].persons # new_data.talks[j].persons
          /\ TalkChanged(current_data.talks[i], new_data.talks[j]) \in Range(changes)

(***************************************************************************)
(* C4: when the date differs and the new snapshot has talks or hosts other *)
(* than ["fixme"], the diff is exactly DateChanged(new.date),              *)
(* HostsChanged([], new.hosts) and one TalkAdded per new talk in snapshot  *)
(* order; nothing of the old snapshot enters it.                           *)
(***************************************************************************)
C4_RolloverSequence ==
    (/\ Diffed
     /\ current_data.date # new_data.date
     /\ (new_data.talks # <<>> \/ new_data.hosts # <<"fixme">>))
    => changes = <<DateChanged(new_data.date),
                   HostsChanged(<<>>, new_data.hosts)>>
                 \o MapSeq(new_data.talks, TalkAdded)

\* C4: a state in which the case of the claim has happened
C4_Witness ==
    /\ Diffed
    /\ current_data.date # new_data.date
    /\ current_data.talks # <<>>
    /\ current_data.hosts # new_data.hosts
    /\ Len(new_data.talks) = 2
    /\ Len(changes) = 4

(***************************************************************************)
(* C5: when the date differs and the new snapshot has no talks and the     *)
(* hosts ["fixme"], the diff is empty whatever the old snapshot holds, and *)
(* its publication sends nothing.                                          *)
(***************************************************************************)
C5_TrivialRolloverSilent ==
    (/\ Diffed
     /\ current_data.date # new_data.date
     /\ new_data.talks = <<>>
     /\ new_data.hosts = <<"fixme">>)
    => changes = <<>> /\ sent = <<>>

\* C5: a state in which the case of the claim has happened
C5_Witness ==
    /\ pc = "published"
    /\ current_data.date # new_data.date
    /\ new_data.talks = <<>>
    /\ new_data.hosts = <<"fixme">>
    /\ current_data.talks # <<>>
    /\ current_data.hosts # <<"fixme">>
    /\ sent = <<>>

Reversed(pairs) == {<<p[2], p[1]>> : p \in pairs}

AddedRemovedMirror(d, r) ==
    /\ AddedTalks(d) = RemovedTalks(r)
    /\ RemovedTalks(d) = AddedTalks(r)

ChangedMirror(d, r) == ChangedPairs(d) = Reversed(ChangedPairs(r))

(***************************************************************************)
(* C6 as claimed: for all snapshots A and B the talk-level events of       *)
(* compare_data(A, B) mirror those of compare_data(B, A): added <->        *)
(* removed, and the changed pairs reversed.                                *)
(***************************************************************************)
C6_Mirror ==
    Diffed =>
        LET r == compare_data(new_data, current_data)
        IN  AddedRemovedMirror(changes, r) /\ ChangedMirror(changes, r)

(***************************************************************************)
(* C6 amended: for snapshots A and B with the same date, a talk is added   *)
(* in diff(A,B) iff it is removed in diff(B,A) and the reverse; if also    *)
(* no title occurs twice within A or within B, (x, y) is a changed pair of *)
(* diff(A,B) iff (y, x) is one of diff(B,A).                               *)
(***************************************************************************)
C6_MirrorSameDate ==
    (Diffed /\ SameDate) =>
        LET r == compare_data(new_data, current_data)
        IN  /\ AddedRemovedMirror(changes, r)
            /\ (UniqueTitles(current_data.talks) /\ UniqueTitles(new_data.talks))
                   => ChangedMirror(changes, r)

\* C6: a state in which the case of the claim has happened
C6_Witness ==
    /\ Diffed /\ SameDate
    /\ UniqueTitles(current_data.talks) /\ UniqueTitles(new_data.talks)
    /\ ChangedPairs(changes) # {}
    /\ RemovedTalks(changes) # {}
    /\ AddedTalks(compare_data(new_data, current_data)) # {}

NonDecreasing(cs, Rank(_)) ==
    \A i, j \in 1..Len(cs) : i < j => Rank(cs[i].type) <= Rank(cs[j].type)

ClaimedRank(type) ==
    CASE type \in {"DateChanged", "HostsChanged"} -> 0
      [] type = "TalkAdded" -> 1
      [] type = "TalkChanged" -> 2
      [] type = "TalkRemoved" -> 3

(***************************************************************************)
(* C7 as claimed: DateChanged and HostsChanged come before the talk-level  *)
(* events, and among those every TalkAdded comes before every TalkChanged, *)
(* which comes before every TalkRemoved.                                   *)
(***************************************************************************)
C7_AddedChangedRemovedOrder == Diffed => NonDecreasing(changes, ClaimedRank)

EmissionRank(type) ==
    CASE type \in {"DateChanged", "HostsChanged"} -> 0
      [] type \in {"TalkRemoved", "TalkChanged"} -> 1
      [] type = "TalkAdded" -> 2

(***************************************************************************)
(* C7 amended: DateChanged and HostsChanged come before the talk-level     *)
(* events, and among those every TalkRemoved and every TalkChanged comes   *)
(* before every TalkAdded.                                                 *)
(***************************************************************************)
C7_EmissionOrder == Diffed => NonDecreasing(changes, EmissionRank)

\* C7: a state in which the case of the claim has happened
C7_Witness ==
    /\ Diffed
    /\ Len(changes) = 3
    /\ changes[1].type = "HostsChanged"
    /\ changes[2].type = "TalkChanged"
    /\ changes[3].type = "TalkAdded"

DeliveredAll ==
    /\ Len(sent) = Len(Destinations(changes))
    /\ \A i \in 1..Len(sent) : sent[i].room_id = room_ids[i]

CycleStep ==
    /\ pc \in {"fetch", "compare", "publish"} =>
         /\ store' = store
         /\ pc' # "save" => current_data' = current_data
         /\ pc' = "save" =>
              /\ pc = "publish"
              /\ ~compare_raises(current_data, new_data)
              /\ changes = compare_data(current_data, new_data)
              /\ DeliveredAll
              /\ current_data' = new_data
    /\ store' # store => pc \in {"bootsave", "bootsaving", "save", "saving"}

C9_NoCallOnEmptyChanges ==
    (pc \in {"publish", "save", "saving"} /\ changes = <<>>) => sent = <<>>

\* C9: a state in which the case of the claim has happened
C9_Witness ==
    /\ pc = "save"
    /\ changes = <<>>
    /\ sent = <<>>
    /\ Len(room_ids) >= 2

(***************************************************************************)
(* C10: whenever compare_data is called, its old argument current_data is  *)
(* the snapshot that data/current.json holds at that moment.               *)
(***************************************************************************)
C10_OldIsPersisted ==
    pc = "compare" => Parses(store) /\ json_loads(store) = current_data

\* C10: a state in which the case of the claim has happened
C10_Witness ==
    /\ pc = "compare"
    /\ Parses(store)
    /\ json_loads(store) = current_data
    /\ new_data # current_data
    /\ pending = MaxPending

FetchStep ==
    /\ (pc = "fetch" /\ pc' = "compare") =>
          Parses(new_file) /\ new_data' = json_loads(new_file)
    /\ (pc = "bootfetch" /\ pc' = "bootsave") =>
          Parses(new_file) /\ current_data' = json_loads(new_file)
    /\ (pc \in {"fetch", "bootfetch"} /\ ~Parses(new_file)) =>
          pc' \in {pc, "down"}
    /\ (pc \in {"fetch", "bootfetch"} /\ pc' = pc /\ backoff' # backoff) =>
          ~Parses(new_file) /\ backoff' = 2 * backoff
    /\ (pc' \in {"fetch", "bootfetch"} /\ pc' # pc) => backoff' = 5

(***************************************************************************)
(* C11: fetch_new_data returns only a document it parsed; a failed read    *)
(* makes it wait and retry, the wait starting at 5 and doubling with each  *)
(* failure; compare_data runs only on a fetched document; and a fetch      *)
(* whose file is readable and stays readable returns (unless the process   *)
(* ends).                                                                  *)
(***************************************************************************)
C11_FetchRetriesUntilParsed ==
    /\ [](pc = "compare" => new_data \in HostDocs)
    /\ [][FetchStep]_vars
    /\ []((pc = "fetch" /\ []Parses(new_file)) => <>(pc \in {"compare", "down"}))

\* C11: a fetch returned after two failed reads
C11_Witness ==
    /\ pc = "compare"
    /\ backoff = 20
    /\ new_data \in HostDocs

DateEvents(cs) == {i \in 1..Len(cs) : cs[i].type = "DateChanged"}

(***************************************************************************)
(* C12: the date a notification shows is the new_date of the DateChanged   *)
(* event if the changes hold one, else the date of current_data as it is   *)
(* while publishing, before the swap; so every notification of a cycle     *)
(* shows the date of the new snapshot.                                     *)
(***************************************************************************)
C12_DisplayedDate ==
    \A i \in 1..Len(sent) :
        /\ sent[i].body.date = new_data.date
        /\ pc = "publish" =>
             sent[i].body.date =
                IF DateEvents(changes) # {}
                THEN changes[CHOOSE j \in DateEvents(changes) : TRUE].new_date
                ELSE current_data.date

\* C12: a notification of a new date went out while the old snapshot is current
C12_Witness ==
    /\ pc = "publish"
    /\ Len(sent) = Len(room_ids)
    /\ current_data.date # new_data.date
    /\ sent[1].body.date = new_data.date

BootStates == {"bootfetch", "bootsave", "bootsaving"}

StartupStep ==
    \* the file loads: it becomes current_data, nothing is fetched or written
    /\ (pc = "down" /\ Parses(store) /\ pc' # "down") =>
          /\ pc' = "setup"
          /\ current_data' = json_loads(store)
          /\ store' = store
          /\ new_data' = NoData
    \* the file does not load: a fetch comes first
    /\ (pc = "down" /\ ~Parses(store) /\ pc' # "down") => pc' = "bootfetch"
    /\ (pc = "bootfetch" /\ pc' \notin {"bootfetch", "down"}) =>
          /\ Parses(new_file)
          /\ current_data' = json_loads(new_file)
          /\ pc' = "bootsave"
    /\ (pc \in {"bootsave", "bootsaving"} /\ pc' \notin BootStates \cup {"down"}) =>
          /\ pc' = "setup"
          /\ store' = json_dumps(current_data)
          /\ current_data' = current_data
    \* the cycles start from setup only
    /\ (pc' = "wait" /\ pc \notin {"wait", "saving"}) => pc = "setup"
    /\ pc = "setup" => store' = store /\ current_data' = current_data

(***************************************************************************)
(* C13: at startup, if data/current.json does not load, main fetches a     *)
(* snapshot, makes it current_data and saves it before any update cycle,   *)
(* and sends nothing for it; if the file loads, its content becomes        *)
(* current_data and nothing is fetched or written at startup.              *)
(***************************************************************************)
C13_Startup ==
    /\ [](pc \in BootStates \cup {"setup"} =>
            /\ sent = <<>> /\ changes = <<>> /\ new_data = NoData)
    /\ [](pc = "setup" => Parses(store) /\ json_loads(store) = current_data)
    /\ [][StartupStep]_vars

\* C13: startup is through, the snapshot fetched for want of a file is saved
C13_Witness ==
    /\ pc = "setup"
    /\ Parses(store)
    /\ json_loads(store) = current_data
    /\ Parses(new_file)
    /\ json_loads(new_file) = current_data
    /\ sent = <<>>

InCycle == pc \in {"fetch", "compare", "publish", "save", "saving"}

CycleOrder ==
    { <<"fetch", "compare">>, <<"compare", "publish">>, <<"publish", "save">>,
      <<"save", "saving">>, <<"saving", "wait">> }

SerialStep ==
    \* a cycle starts only when the loop waits, and takes one event
    /\ (pc' = "fetch" /\ pc # "fetch") => pc = "wait" /\ pending' = pending - 1
    /\ pending' < pending => (pc = "wait" /\ pc' = "fetch") \/ pc = "down" \/ pc = "setup"
    \* a running cycle goes through its steps in order, or the process ends
    /\ (InCycle /\ pc' # pc) => <<pc, pc'>> \in CycleOrder \/ pc' = "down"
    \* an event that arrives meanwhile only joins the queue
    /\ (InCycle /\ pending' > pending /\ pc' = pc) =>
          UNCHANGED <<current_data, new_data, changes, sent, store, backoff>>

(***************************************************************************)
(* C14: at most one update cycle runs at a time: a cycle starts only when  *)
(* the loop of watch_for_new_data waits for its next event, that is after  *)
(* the previous got_new_data returned; events that arrive while a cycle    *)
(* waits for a fetch retry or a send are queued and leave the cycle alone, *)
(* and the cycle runs fetch, diff, delivery, swap and save in that order.  *)
(***************************************************************************)
C14_OneCycleAtATime == [][SerialStep]_vars

\* C14: events are queued while a cycle is between two sends
C14_Witness ==
    /\ pc = "publish"
    /\ Len(sent) = 1
    /\ Len(Destinations(changes)) >= 2
    /\ pending = MaxPending
    /\ Parses(new_file)
    /\ json_loads(new_file) # new_data

\* every room got one message, in the order of room_ids, all with one text
OnePerRoom ==
    /\ Len(sent) = Len(room_ids)
    /\ \A i \in 1..Len(sent) :
          /\ sent[i].room_id = room_ids[i]
          /\ sent[i].body = sent[1].body

\* the text speaks of every change
CoversChanges(body) ==
    Len(body.date_changed) + Len(body.hosts_changed) + Len(body.talks_added)
        + Len(body.talks_changed) + Len(body.talks_removed) = Len(changes)

DeliveryStep ==
    /\ (pc = "publish" /\ pc' = "save" /\ changes # <<>>) =>
          OnePerRoom /\ store' = store
    /\ (pc = "publish" /\ sent' # sent) =>
          /\ sent' = Append(sent, sent'[Len(sent')])
          /\ current_data' = current_data
          /\ store' = store

(***************************************************************************)
(* C15: in a cycle with changes whose sends all return, every configured   *)
(* room gets exactly one message, in the configured order, all with the    *)
(* same text, before current_data is swapped and saved.                    *)
(***************************************************************************)
C15_OneMessagePerRoom ==
    /\ []((pc \in {"save", "saving"} /\ changes # <<>>) =>
             OnePerRoom /\ CoversChanges(sent[1].body))
    /\ [][DeliveryStep]_vars

\* C15: all rooms are served, the swap is done, the save is still to come
C15_Witness ==
    /\ pc = "save"
    /\ changes # <<>>
    /\ Len(sent) = Len(room_ids)
    /\ Len(room_ids) >= 2
    /\ current_data = new_data
    /\ store # json_dumps(current_data)

AbortedChanges == compare_data(aborted.old, aborted.new)

Redelivering ==
    /\ aborted # NoData
    /\ pc = "publish"
    /\ new_data = aborted.new

RedeliveryStep ==
    /\ (pc = "publish" /\ pc' = "down" /\ aborted' # aborted) =>
          /\ aborted'.old = current_data /\ aborted'.new = new_data
          /\ aborted'.k = Len(sent) + 1
          /\ current_data' = current_data
          /\ store' = store
    /\ (Redelivering /\ pc' = "save") =>
          /\ OnePerRoom
          /\ sent[1].body = output_md(AbortedChanges, aborted.old)

SuppressedRollover ==
    /\ pc = "publish"
    /\ current_data.date # new_data.date
    /\ ~NonTrivial(new_data)

Populated ==
    /\ pc = "publish"
    /\ current_data.date = new_data.date
    /\ ~NonTrivial(current_data)
    /\ NonTrivial(new_data)

AdoptionStep ==
    /\ (pc = "publish" /\ pc' = "save") => current_data' = new_data
    /\ (pc = "saving" /\ pc' = "wait") =>
          current_data = new_data /\ store' = json_dumps(new_data)

(***************************************************************************)
(* C17 as stated, last clause: a DateChanged event for a date is emitted   *)
(* in at most one cycle.  It fails for the cycle that follows one ended by *)
(* a raising room_send: the event was sent to the first room then, and is  *)
(* computed and sent again now.                                            *)
(***************************************************************************)
C17_DateChangedInOneCycle ==
    ~(/\ Redelivering
      /\ aborted.k >= 2
      /\ sent # <<>>
      /\ DateEvents(changes) # {}
      /\ DateEvents(AbortedChanges) # {})

(***************************************************************************)
(* C17: a cycle that fetches a new date with no talks and the placeholder  *)
(* hosts sends nothing and still swaps and saves the fetched snapshot.  A  *)
(* later cycle that fetches talks or hosts for that date takes the         *)
(* same-date path: HostsChanged(["fixme"], hosts) if the hosts are no       *)
(* longer the placeholder, then one TalkAdded per talk, and no             *)
(* DateChanged.  A cycle emits DateChanged, once and first, only when the  *)
(* fetched date differs from the date of the saved snapshot.               *)
(***************************************************************************)
C17_SuppressedRolloverAdopted ==
    /\ [](SuppressedRollover => changes = <<>> /\ sent = <<>>)
    /\ [][AdoptionStep]_vars
    /\ [](Populated =>
             changes =
               (IF new_data.hosts # Placeholder
                THEN <<HostsChanged(Placeholder, new_data.hosts)>>
                ELSE <<>>)
               \o [i \in 1..Len(new_data.talks) |-> TalkAdded(new_data.talks[i])])
    /\ [](pc = "publish" =>
             IF json_loads(store).date = new_data.date
             THEN DateEvents(changes) = {}
             ELSE DateEvents(changes) \subseteq {1}
                  /\ \A i \in DateEvents(changes) :
                        changes[i] = DateChanged(new_data.date))

\* C17: a cycle that sent nothing has swapped in the snapshot of the new
\* date, which current.json does not hold yet
C17_Witness ==
    /\ pc = "save"
    /\ changes = <<>>
    /\ sent = <<>>
    /\ current_data = new_data
    /\ ~NonTrivial(new_data)
    /\ json_loads(store).date # new_data.date

HostsEvents(cs) == OfType(cs, "HostsChanged")

(***************************************************************************)
(* C18: for two snapshots of one date, each with unique titles,            *)
(* compare_data is empty exactly when the hosts lists are equal as lists   *)
(* and the talks lists hold the same talks in any order; and it holds      *)
(* HostsChanged(old.hosts, new.hosts), once, exactly when the hosts lists  *)
(* differ.                                                                 *)
(***************************************************************************)
C18_EmptyIffSameContent ==
    (/\ Diffed /\ SameDate
     /\ UniqueTitles(current_data.talks)
     /\ UniqueTitles(new_data.talks))
    => /\ changes = <<>> <=>
            /\ current_data.hosts = new_data.hosts
            /\ Range(current_data.talks) = Range(new_data.talks)
       /\ HostsEvents(changes) =
            IF current_data.hosts # new_data.hosts
            THEN <<HostsChanged(current_data.hosts, new_data.hosts)>>
            ELSE <<>>

\* C18: the same two talks in another order, the same hosts, no changes
C18_Witness ==
    /\ Diffed /\ SameDate
    /\ Len(current_data.talks) = 2
    /\ UniqueTitles(current_data.talks)
    /\ current_data.talks # new_data.talks
    /\ Range(current_data.talks) = Range(new_data.talks)
    /\ Len(new_data.talks) = 2
    /\ current_data.hosts = new_data.hosts
    /\ changes = <<>>

====
